---- MODULE Spec2Model ----
(***************************************************************************)
(* A model of coro::task (src/src/coro/task.hpp) driven through the        *)
(* round-robin scheduler coro::sched_rr (src/src/coro/sched_rr.hpp).       *)
(*                                                                         *)
(* A coroutine is identified by a small number, which stands for its       *)
(* handle, for its promise object and for the list node sched_rr::insert   *)
(* creates for it.  A step of the model is one operation of the external   *)
(* caller (construct a task, call operator(), destroy a task) or one       *)
(* suspension point reached by the running coroutine body together with    *)
(* the transfer of control it causes.  Code between two suspension points  *)
(* of a body does not touch the library and is not a step.                 *)
(*                                                                         *)
(* Bodies are arbitrary: the running coroutine chooses its next            *)
(* suspension point freely, at most MaxOps non-final ones in a run.        *)
(* Bodies construct and destroy tasks as the external caller does, but     *)
(* only the external caller calls operator().                              *)
(* Resuming a coroutine that is not suspended at a resumable point is      *)
(* undefined behaviour; every build calls through the null resume pointer  *)
(* of a finished frame, so the model stops the process (crashed).          *)
(*                                                                         *)
(* Further specifications cover bodies that end with an exception          *)
(* (SpecEx), task objects that are moved (SpecMove), runs in which the     *)
(* operator() calls are counted (SpecSeq), fair runs of bodies that yield  *)
(* only (SpecRRFair), coro::generator (src/src/coro/generator.hpp,         *)
(* SpecGen), coro::lazy (src/src/coro/lazy.hpp, SpecLazy), coro::sync      *)
(* (src/src/coro/sync.hpp, SpecSync), coro::log (src/src/coro/log.hpp,    *)
(* SpecLog) and generator and lazy objects that are copied, moved and      *)
(* destroyed (SpecWrap).                                                   *)
(***************************************************************************)
EXTENDS Naturals, Sequences, FiniteSets

\* Number of task objects the program constructs.
MaxTasks == 3
\* Number of non-final suspension points the bodies execute, all together.
MaxOps == 3

\* Number of task objects (wrappers) in a run that moves them.
MaxObjects == 3
\* Number of coroutine frames created in such a run.
MaxFrames == 2
\* Number of generators, and of co_yield expressions a generator body executes.
MaxGens == 2
MaxYields == 2
\* Number of operator() calls made for a generator.
MaxCalls == 4
\* Number of lazy coroutines, and of run() and result() calls made for one.
MaxLazies == 1
MaxReads == 5
\* Number of sync coroutines; MaxReads bounds their result() calls as well.
MaxSyncs == 1
\* Number of threads that log, of log instances they create, all together,
\* and of values appended to one instance.
MaxThreads == 2
MaxLogs == 3
MaxVals == 1
\* Wrapper objects (generator, lazy) made in one run of copies and moves.
MaxWrappers == 3

Tasks == 1..MaxTasks
Objects == 1..MaxObjects
Gens == 1..MaxGens
Threads == 1..MaxThreads

\* The default-constructed Sched::iterator, the external caller as the
\* "running coroutine", and std::noop_coroutine() as a transfer target.
Null == 0

\* std::nullopt in promise_type::current
NoValue == <<>>

\* The n-th value produced (co_yield expr or co_return expr) by coroutine t.
Value(t, n) == <<t, n>>

VARIABLES
    storage,    \* sched_rr::storage, the list of registered handles
    sch_it,     \* promise_type::sch_it of every coroutine
    current,    \* promise_type::current of every coroutine
    pt,         \* where the coroutine frame is: "none", "initial", "yield",
                \* "yield_value", "await", "running", "final", "destroyed"
    aw,         \* the coroutine's co_await in progress or just completed
    running,    \* the coroutine executing its body, Null: the external caller
    was,        \* the suspension point the running coroutine was resumed from
    adv,        \* the task of the operator() call the external caller made last
    ret,        \* the value that call returned
    crashed,    \* the process ended in undefined behaviour
    cnt,        \* what each live body has executed so far
    budget,     \* number of non-final suspension points the bodies may still execute
    inserts,    \* number of sched_rr::insert calls made for the coroutine
    erases,     \* number of sched_rr::erase calls made with its iterator
    tracing,    \* whether visits and calls are recorded in this run
    visits,     \* coroutines resumed since the latest operator() call began
    calls,      \* number of operator() calls that resumed the task
    pend,       \* peers registered at the latest explicit yield, not resumed since
    inChain,    \* since its explicit yield control moved by registry hand-offs only
    last,       \* the latest operation
    depth,      \* number of calls of handle.resume() that have not returned
    obj,        \* lifetime of every task object made so far: "live", "dead"
    handle,     \* task::handle of every task object
    destroys,   \* number of handle.destroy() calls made for every frame made
    gen,        \* the generators made so far: frame, current, calls made
    lz,         \* the lazy coroutines made so far: frame, result, calls made
    sy,         \* the sync objects returned so far: result, calls made
    lg,         \* coro::log: the mutex, the flags, the instances, the output
    wrp         \* generator and lazy objects that are copied, moved, destroyed

\* The state of the scheduler-bound tasks.
sched == <<storage, sch_it, current, pt, aw, running, was, adv, ret, cnt,
           budget, inserts, erases, tracing, visits, calls, pend, inChain,
           last, depth>>

\* The task objects (wrappers) of the runs in which they are moved.
objects == <<obj, handle, destroys>>

\* What the runs of scheduler-bound tasks leave alone.
side == <<objects, gen, lz, sy, lg, wrp>>

\* What the runs of task objects and the runs of generators leave alone.
notObjects == <<sched, gen, lz, sy, lg, wrp>>
notGen == <<sched, crashed, objects, lz, sy, lg, wrp>>
notLazy == <<sched, crashed, objects, gen, sy, lg, wrp>>
notSync == <<sched, objects, gen, lz, lg, wrp>>
notLog == <<sched, crashed, objects, gen, lz, sy, wrp>>
notWrappers == <<sched, crashed, objects, gen, lz, sy, lg>>

vars == <<storage, sch_it, current, pt, aw, running, was, adv, ret, crashed,
          cnt, budget, inserts, erases, tracing, visits, calls, pend, inChain,
          last, depth, side>>

----------------------------------------------------------------------------
\* sched_rr

Range(s) == {s[i] : i \in 1..Len(s)}

\* Position of the node an iterator designates.
IndexOf(s, it) == CHOOSE i \in 1..Len(s) : s[i] = it

\* An iterator returned by insert() and not erased since.
ValidIt(s, it) == it \in Range(s)

insert_front(s, hnd) == <<hnd>> \o s

\* sched_rr::insert: storage.insert(storage.end(), hnd)
insert(s, hnd) == Append(s, hnd)

erase_nothing(s, it) == s

erase_rotate(s, it) ==
    LET r == SelectSeq(s, LAMBDA h : h # it)
    IN  IF r = <<>> THEN r ELSE Tail(r) \o <<Head(r)>>

\* sched_rr::erase: storage.erase(it)
erase(s, it) == SelectSeq(s, LAMBDA h : h # it)

resume_nowrap(s, it) ==
    LET inc == IndexOf(s, it) + 1
        pos == IF inc = Len(s) + 1 THEN Len(s) ELSE inc
    IN  <<s[pos], Len(s) > 1>>

resume_begin(s, it) == <<s[1], Len(s) > 1>>

resume_back(s, it) ==
    LET i == IndexOf(s, it)
        pos == IF i = 1 THEN Len(s) ELSE i - 1
    IN  <<s[pos], Len(s) > 1>>

\* sched_rr::resume: if (++it == storage.end()) it = storage.begin();
\* return {*it, storage.size() > 1}
resume(s, it) ==
    LET inc == IndexOf(s, it) + 1
        pos == IF inc = Len(s) + 1 THEN 1 ELSE inc
    IN  <<s[pos], Len(s) > 1>>

resume_effect_rotate(s, it) == Tail(s) \o <<Head(s)>>

\* sched_rr::resume, its effect on storage: none, it takes the iterator by
\* value and increments its own copy.
resume_effect(s, it) == s

----------------------------------------------------------------------------
\* coroutine frames

done_never(t) == FALSE

\* std::coroutine_handle::done()
done(t) == pt[t] = "final"

\* The task object exists: constructed and not destroyed.
Alive(t) == pt[t] \notin {"none", "destroyed"}

\* Suspension points at which a frame may be resumed.
Resumable == {"initial", "yield", "yield_value", "await"}

\* What a body has executed so far: the numbers of co_await task::yield{}
\* (y), of co_yield expr (v) and of co_await of a task (a), and how it ended:
\* "r" by co_return expr, "e" by co_return or by falling off its end, "x" by
\* an exception that left the body.
\* The result type R of a task shows at co_yield and co_return only: a body
\* that executes co_yield or co_return expr has R not void, one that ends in
\* return_void() has R void and so contains no co_yield.
NoOps == [y |-> 0, v |-> 0, a |-> 0, end |-> ""]

\* Number of productions of a body: its value yields and its return.
Productions(c) == c.v + (IF c.end \in {"r", "e"} THEN 1 ELSE 0)

\* No co_await in progress.
NoAwait == [on |-> Null, before |-> 0, after |-> 0, void |-> FALSE,
            result |-> NoValue]

\* Peers still owed a turn to the coroutines suspended at an explicit yield,
\* after coroutine h got one (h = Null: nobody) and the registry became sto.
Owed(p, ptS, h, sto) ==
    [x \in Tasks |->
        IF ptS[x] = "yield" THEN (p[x] \ {h}) \cap Range(sto) ELSE p[x]]

await_resume_own(t, r, cur) == cur[r]

\* task::await_resume (R not void) of task t in coroutine r:
\* return handle.promise().current.  For R void it returns nothing, and
\* current is never set.
await_resume(t, r, cur) == cur[t]

\* The coroutine h leaves the suspension point ptS[h]: a coroutine waiting in
\* co_await evaluates await_resume() of the awaited task.
Resumed(h, ptS, cur, c, a) ==
    IF ptS[h] = "await"
    THEN [a EXCEPT ![h] = [on |-> a[h].on, before |-> a[h].before,
                           after |-> Productions(c[a[h].on]),
                           void |-> c[a[h].on].end = "e",
                           result |-> await_resume(a[h].on, h, cur)]]
    ELSE a

\* Control arrives at handle h after the running coroutine suspended, which
\* left the frames as ptS, the values as cur, the bodies as c and the registry
\* as sto.  h = Null is a suspension that returns to the caller of resume()
\* (a plain std::suspend_always or std::noop_coroutine()).  d calls of
\* resume() are pending when control arrives.
Transfer(h, ptS, cur, c, sto, p, a, vis, d) ==
    IF h = Null
    THEN /\ running' = Null
         /\ depth' = d - 1
         /\ pt' = ptS
         /\ was' = "none"
         /\ aw' = a
         /\ visits' = vis
         /\ pend' = Owed(p, ptS, Null, sto)
         /\ crashed' = crashed
    ELSE IF ptS[h] \in Resumable
    THEN /\ running' = h
         /\ depth' = d
         /\ pt' = [ptS EXCEPT ![h] = "running"]
         /\ was' = ptS[h]
         /\ aw' = Resumed(h, ptS, cur, c, a)
         /\ visits' = IF tracing THEN Append(vis, h) ELSE vis
         /\ pend' = Owed(p, [ptS EXCEPT ![h] = "running"], h, sto)
         /\ crashed' = crashed
    ELSE /\ running' = running
         /\ depth' = d
         /\ pt' = ptS
         /\ was' = "none"
         /\ aw' = a
         /\ visits' = vis
         /\ pend' = p
         /\ crashed' = TRUE

nested_resume(d) == d + 1

\* The await_suspend() of task::yield, of task_final_suspend and of a task
\* (log_awaiter::await_suspend) return a std::coroutine_handle: the coroutine
\* it names is resumed by symmetric transfer, once the suspending coroutine
\* has left its resume(), not by a call of resume() inside await_suspend().
\* d calls of resume() were pending before the transfer.
symmetric_transfer(d) == d

call_result_first(cur, t, r) == cur[r]

\* task::operator(), line 171, called for task t when coroutine r suspended
\* last: return handle.promise().current
call_result(cur, t, r) == cur[t]

\* What the pending operator() call returns when control arrives at h.
Returned(h, cur, r) == IF h = Null THEN call_result(cur, adv, r) ELSE ret

\* The result of an operator() call is a temporary of the external caller:
\* its next operation starts without it.
Forget ==
    IF running = Null
    THEN adv' = Null /\ ret' = NoValue /\ visits' = <<>>
    ELSE UNCHANGED <<adv, ret, visits>>

\* Control left the chain of registry hand-offs.
Broken == [t \in Tasks |-> FALSE]

NoTransfer == [kind |-> "none", from |-> Null, to |-> Null, reg |-> <<>>]

----------------------------------------------------------------------------
\* task objects

\* No task object of a moving run exists.
NoObjects == obj = <<>> /\ handle = <<>> /\ destroys = <<>>

\* The frame was created and handle.destroy() was not called for it.
Suspended(f) == f \in DOMAIN destroys /\ destroys[f] = 0

\* The task objects whose lifetime has not ended and whose handle is f.
Holders(f) == {w \in DOMAIN obj : obj[w] = "live" /\ handle[w] = f}

\* log_handle(log_handle&&) = default and its operator=, which are those of
\* std::coroutine_handle: the source keeps the address of the frame.
move_handle(h) == h

\* ~task: handle.destroy().  Destroying a destroyed frame is undefined: the
\* frame is freed twice.
task_dtor(w) ==
    /\ destroys' = [destroys EXCEPT ![handle[w]] = @ + 1]
    /\ crashed' = (destroys[handle[w]] > 0)

\* Calling a coroutine function makes a frame and returns a task object:
\* log_promise::get_return_object() is RetObj r{promise}; ...; return r.
\* The copy elision of the named local r is permitted, not required: a build
\* that elides constructs r in the caller's object, a build that does not
\* move-constructs that object from r and ends the lifetime of r.
get_return_object(elide) ==
    /\ ~crashed
    /\ Len(obj) < MaxObjects /\ Len(destroys) < MaxFrames
    /\ obj' = Append(obj, "live")
    /\ handle' = Append(handle, Len(destroys) + 1)
    /\ destroys' = Append(destroys, IF elide THEN 0 ELSE 1)
    /\ UNCHANGED <<crashed, notObjects>>

\* task(task&&) noexcept = default: a new task object is constructed from u.
move_construct(u) ==
    /\ ~crashed
    /\ Len(obj) < MaxObjects
    /\ u \in DOMAIN obj /\ obj[u] = "live"
    /\ obj' = Append(obj, "live")
    /\ handle' = Append([handle EXCEPT ![u] = move_handle(handle[u])], handle[u])
    /\ UNCHANGED <<destroys, crashed, notObjects>>

\* task& operator=(task&&) noexcept = default: u is assigned to w.
move_assign(w, u) ==
    /\ ~crashed
    /\ w \in DOMAIN obj /\ u \in DOMAIN obj
    /\ w # u /\ obj[w] = "live" /\ obj[u] = "live"
    /\ handle' = [handle EXCEPT ![w] = handle[u], ![u] = move_handle(handle[u])]
    /\ UNCHANGED <<obj, destroys, crashed, notObjects>>

\* The lifetime of task object w ends.
end_of_life(w) ==
    /\ ~crashed
    /\ w \in DOMAIN obj /\ obj[w] = "live"
    /\ obj' = [obj EXCEPT ![w] = "dead"]
    /\ task_dtor(w)
    /\ UNCHANGED <<handle, notObjects>>

----------------------------------------------------------------------------
\* generators (src/src/coro/generator.hpp)

\* A generator before its coroutine function is called.
\* n: co_yield expressions executed; end: "" or how the body ended, "e" by
\* co_return or falling off its end, "x" by an exception; ret: what the
\* latest operator() call returned; past: that call found the frame done;
\* out: what the operator() calls returned, one after another; it: the
\* iterator of the caller's loop, "none" before begin(), "valid" while it
\* points to the generator, "end" when it equals end().
NoGenerator == [pt |-> "none", current |-> NoValue, n |-> 0, end |-> "",
                ret |-> NoValue, past |-> FALSE, out |-> <<>>, it |-> "none"]

NoGenerators == gen = <<>>

\* generator::promise_type::yield_value: current = expr
generator_yield_value(g, n) == Value(g, n)

\* generator::promise_type::return_void: current.reset()
generator_return_void(cur) == NoValue

\* log_promise::unhandled_exception in a generator body: nothing is stored.
generator_unhandled_exception(cur) == cur

\* Calling a generator coroutine function: the frame is created and
\* initial_suspend() (std::suspend_always) returns to the caller.
generator_ctor ==
    /\ Len(gen) < MaxGens
    /\ gen' = Append(gen, [NoGenerator EXCEPT !.pt = "initial"])
    /\ UNCHANGED notGen

\* generator::operator(): if (!handle.done()) handle.resume();
\* return handle.promise().current.  The resumed body runs to its next
\* co_yield, to its end, or until an exception leaves it; yield_value() and
\* final_suspend() return std::suspend_always.
\* The generator g after the call.
generator_resume(g, step) ==
    LET r == gen[g]
        to(p, v, n, e) == [r EXCEPT !.pt = p, !.current = v, !.n = n, !.end = e,
                                    !.ret = v, !.past = FALSE,
                                    !.out = Append(r.out, v)]
    IN  IF step = "done"
        THEN [r EXCEPT !.ret = r.current, !.past = TRUE,
                       !.out = Append(r.out, r.current)]
        ELSE IF step = "co_yield"
        THEN to("yield_value", generator_yield_value(g, r.n + 1), r.n + 1, "")
        ELSE IF step = "co_return"
        THEN to("final", generator_return_void(r.current), r.n, "e")
        ELSE to("final", generator_unhandled_exception(r.current), r.n, "x")

\* The steps a call may take: none if the frame is done, else what the body
\* does next.
generator_steps(g) ==
    IF gen[g].pt = "final" THEN {"done"}
    ELSE {"co_return", "throw"} \cup
         (IF gen[g].n < MaxYields THEN {"co_yield"} ELSE {})

\* The caller makes the calls itself or iterates, from begin() on.
generator_call(g, step) ==
    /\ g \in DOMAIN gen
    /\ gen[g].pt \in {"initial", "yield_value", "final"}
    /\ gen[g].it = "none"
    /\ Len(gen[g].out) < MaxCalls
    /\ step \in generator_steps(g)
    /\ gen' = [gen EXCEPT ![g] = generator_resume(g, step)]
    /\ UNCHANGED notGen

iterator_of_always(cur) == "valid"

\* generator::begin, lines 102-105, and iterator::operator++, lines 64-65:
\* the iterator points to the generator if the call returned a value, else
\* it is the end iterator.
iterator_of(cur) == IF cur # NoValue THEN "valid" ELSE "end"

\* generator::begin: operator()(); if (handle.promise().current) return
\* iterator{*this}; else return {}
generator_begin(g, step) ==
    /\ g \in DOMAIN gen
    /\ gen[g].pt \in {"initial", "yield_value", "final"}
    /\ gen[g].it = "none"
    /\ Len(gen[g].out) < MaxCalls
    /\ step \in generator_steps(g)
    /\ LET r == generator_resume(g, step)
       IN  gen' = [gen EXCEPT ![g] = [r EXCEPT !.it = iterator_of(r.current)]]
    /\ UNCHANGED notGen

\* iterator::operator++: if (!(*gen)()) gen = nullptr.  The loop calls it
\* while the iterator differs from end().
iterator_increment(g, step) ==
    /\ g \in DOMAIN gen
    /\ gen[g].pt \in {"initial", "yield_value", "final"}
    /\ gen[g].it = "valid"
    /\ Len(gen[g].out) < MaxCalls
    /\ step \in generator_steps(g)
    /\ LET r == generator_resume(g, step)
       IN  gen' = [gen EXCEPT ![g] = [r EXCEPT !.it = iterator_of(r.ret)]]
    /\ UNCHANGED notGen

\* iterator::operator*: *gen->handle.promise().current
iterator_deref(g) == gen[g].current

\* ~generator: handle.destroy()
generator_dtor(g) ==
    /\ g \in DOMAIN gen
    /\ gen[g].pt \in {"initial", "yield_value", "final"}
    /\ gen' = [gen EXCEPT ![g] = [NoGenerator EXCEPT !.pt = "destroyed"]]
    /\ UNCHANGED notGen

----------------------------------------------------------------------------
\* lazy coroutines (src/src/coro/lazy.hpp)

\* The content of promise_type::result before anything is stored in it (the
\* member has no initializer), and what a move leaves behind in an object of
\* a class type (valid but unspecified).
Unset == <<"unset">>
MovedFrom == <<"moved-from">>

\* A lazy<R> before its coroutine function is called.  R is "void", "scalar"
\* (moving is copying) or "class" (a type with a move constructor); end is
\* "" or how the body ended, "r" by co_return expr, "e" by co_return or by
\* falling off its end, "x" by an exception; runs counts the executions of
\* the body; reads counts the run() and result() calls; ret is what the
\* latest call returned if it was a result(); rv tells that the latest call
\* was a result() &&, moved that a call before the latest one was.
NoLazy == [pt |-> "none", R |-> "void", result |-> Unset, end |-> "",
           runs |-> 0, reads |-> 0, ret |-> NoValue, rv |-> FALSE,
           moved |-> FALSE]

NoLazies == lz = <<>>

\* Calling a lazy coroutine function: the frame is created and
\* initial_suspend() (std::suspend_always) returns to the caller.
lazy_ctor(R) ==
    /\ Len(lz) < MaxLazies
    /\ lz' = Append(lz, [NoLazy EXCEPT !.pt = "initial", !.R = R])
    /\ UNCHANGED notLazy

\* lazy::promise_type::return_value_impl: result = std::forward<T>(expr)
lazy_return_value_impl(l) == Value(l, 1)

lazy_run_again(r) == TRUE

\* lazy::run, line 72: if (!handle.done())
lazy_run_resumes(r) == r.pt # "final"

\* lazy::run: if (!handle.done()) handle.resume().  The resumed body runs
\* to its end or until an exception leaves it; final_suspend() returns
\* std::suspend_always.  The lazy coroutine l after the call.
lazy_run_impl(l, step) ==
    LET r == lz[l]
    IN  IF ~lazy_run_resumes(r)
        THEN r
        ELSE IF step = "co_return" /\ r.R # "void"
        THEN [r EXCEPT !.pt = "final", !.end = "r", !.runs = @ + 1,
                       !.result = lazy_return_value_impl(l)]
        ELSE IF step = "co_return"
        THEN [r EXCEPT !.pt = "final", !.end = "e", !.runs = @ + 1]
        ELSE [r EXCEPT !.pt = "final", !.end = "x", !.runs = @ + 1]

\* The steps a call may take: what the body does if it is resumed.
lazy_steps(l) ==
    IF lz[l].pt = "final" THEN {"done"} ELSE {"co_return", "throw"}

lazy_run(l, step) ==
    /\ l \in DOMAIN lz
    /\ lz[l].pt \in {"initial", "final"}
    /\ lz[l].reads < MaxReads
    /\ step \in lazy_steps(l)
    /\ lz' = [lz EXCEPT ![l] =
                 [lazy_run_impl(l, step) EXCEPT !.reads = @ + 1,
                                                !.ret = NoValue, !.rv = FALSE,
                                                !.moved = @ \/ lz[l].rv]]
    /\ UNCHANGED notLazy

\* What std::move leaves in promise.result: a scalar is copied; an object of
\* a class type is left in a valid but unspecified state, which may be its
\* old value.
moved_from(r) ==
    IF r.R = "scalar" \/ r.result = Unset THEN {r.result}
    ELSE {r.result, MovedFrom}

\* lazy::result() &: run(); return handle.promise().result
\* lazy::result() &&: run(); return std::move(handle.promise().result)
\* Declared only if R is not void.
lazy_result(l, step, rvalue, left) ==
    /\ l \in DOMAIN lz
    /\ lz[l].pt \in {"initial", "final"}
    /\ lz[l].R # "void"
    /\ lz[l].reads < MaxReads
    /\ step \in lazy_steps(l)
    /\ LET r == lazy_run_impl(l, step)
       IN  /\ left \in (IF rvalue THEN moved_from(r) ELSE {r.result})
           /\ lz' = [lz EXCEPT ![l] =
                        [r EXCEPT !.reads = @ + 1, !.ret = r.result,
                                  !.result = left, !.rv = rvalue,
                                  !.moved = @ \/ r.rv]]
    /\ UNCHANGED notLazy

\* ~lazy: handle.destroy()
lazy_dtor(l) ==
    /\ l \in DOMAIN lz
    /\ lz[l].pt \in {"initial", "final"}
    /\ lz' = [lz EXCEPT ![l] = [NoLazy EXCEPT !.pt = "destroyed"]]
    /\ UNCHANGED notLazy

----------------------------------------------------------------------------
\* sync coroutines (src/src/coro/sync.hpp)

\* A sync<R> object.  R and end are as for lazy; result is sync::_result;
\* ran tells that the body was executed; reads counts the result() calls, ret
\* is what the latest one returned, rv tells that it was a result() &&, moved
\* that a call before the latest one was.
NoSync == [R |-> "void", result |-> Unset, end |-> "", ran |-> FALSE,
           reads |-> 0, ret |-> NoValue, rv |-> FALSE, moved |-> FALSE]

NoSyncs == sy = <<>>

\* sync::promise_type::return_value_impl: if (_result) *_result = expr
sync_return_value_impl(n) == Value(n, 1)

\* sync::sync: promise._result = &_result, executed for the named local r of
\* log_promise::get_return_object (RetObj r{...}; return r).  If the copy of
\* r to the returned object is elided, r is the returned object; the
\* language does not require the elision, and without it the pointer is
\* dangling as soon as get_return_object() has returned.
sync_dangling(elide) == ~elide

\* Calling a sync coroutine function.  get_return_object() makes the sync
\* object and returns it; initial_suspend() is std::suspend_never, so the
\* body runs at once, to its end or until an exception leaves it;
\* final_suspend() is std::suspend_never, so the frame is destroyed and the
\* call returns the object get_return_object() returned.  co_return expr
\* through a dangling _result is undefined behaviour: the write is lost or the
\* process ends.
sync_ctor(R, elide, step, ub) ==
    /\ Len(sy) < MaxSyncs
    /\ ~crashed
    /\ LET n == Len(sy) + 1
           made(res, e) == [NoSync EXCEPT !.R = R, !.result = res, !.end = e,
                                          !.ran = TRUE]
       IN  IF step = "throw"
           THEN sy' = Append(sy, made(Unset, "x")) /\ crashed' = crashed
           ELSE IF R = "void"
           THEN sy' = Append(sy, made(Unset, "e")) /\ crashed' = crashed
           ELSE IF ~sync_dangling(elide)
           THEN /\ sy' = Append(sy, made(sync_return_value_impl(n), "r"))
                /\ crashed' = crashed
           ELSE IF ub = "lost"
           THEN sy' = Append(sy, made(Unset, "r")) /\ crashed' = crashed
           ELSE sy' = sy /\ crashed' = TRUE
    /\ UNCHANGED notSync

\* sync::result() const &: return _result
\* sync::result() &&: return std::move(_result)
\* Declared only if R is not void.
sync_result(n, rvalue, left) ==
    /\ ~crashed
    /\ n \in DOMAIN sy
    /\ sy[n].R # "void"
    /\ sy[n].reads < MaxReads
    /\ left \in (IF rvalue THEN moved_from(sy[n]) ELSE {sy[n].result})
    /\ sy' = [sy EXCEPT ![n] =
                 [@ EXCEPT !.reads = @ + 1, !.ret = sy[n].result,
                           !.result = left, !.rv = rvalue,
                           !.moved = @ \/ sy[n].rv]]
    /\ UNCHANGED <<crashed, notSync>>

----------------------------------------------------------------------------
\* coro::log (src/src/coro/log.hpp)

\* The static members of log and the instances that exist.
\* mtx: the thread that holds log::mtx, or Null; once: init_once() was
\* called; common_os: log::common_os is not nullptr; active: the thread_local
\* flag of every thread; made: the number of instances created so far;
\* inst: the instances of every thread, in the order of creation;
\* sink: what has been written to the output stream, one entry
\* <<thread, instance, part>> for every operator<< of the stream, the parts
\* being Header, Val(k) for the k-th value appended, and Newline.
\* An instance is [id, lck, os, pc, vals]: lck tells that log::lck owns the
\* mutex, os that log::os is not nullptr, vals counts the values appended and
\* pc is "init" (in log::init), "lock" (at std::unique_lock{mtx}), "ctor" (in
\* the body of the constructor), "open" (constructed), "unlock" (the body of
\* the destructor is finished, the member lck is not destroyed yet).
Header == <<"header", 0>>
Val(k) == <<"value", k>>
Newline == <<"newline", 0>>

NoLog == [mtx |-> Null, once |-> FALSE, common_os |-> FALSE,
          active |-> [th \in Threads |-> FALSE],
          made |-> 0,
          inst |-> [th \in Threads |-> <<>>],
          sink |-> <<>>]

NoLogs == lg = NoLog

\* The thread is inside a constructor or a destructor of log.
Busy(th) == \E i \in 1..Len(lg.inst[th]) : lg.inst[th][i].pc # "open"

\* The instance the thread is constructing or destroying.
Current(th) == CHOOSE i \in 1..Len(lg.inst[th]) : lg.inst[th][i].pc # "open"

\* A thread evaluates log(): the constructor starts with lck(init()).
log_new(th) ==
    /\ ~Busy(th)
    /\ lg.made < MaxLogs
    /\ lg' = [lg EXCEPT !.made = @ + 1,
                        !.inst[th] = Append(@, [id |-> lg.made + 1,
                                                lck |-> FALSE, os |-> FALSE,
                                                pc |-> "init", vals |-> 0])]
    /\ UNCHANGED notLog

init_nested_never(active) == FALSE

\* log::init, line 299: if (active) return {}
init_nested(active) == active

\* log::init up to the lock: if (active) return {}; std::call_once(once,
\* init_once).  init_once() sets common_os from the environment (os tells if
\* the output is enabled) unless set_stream() did.
log_init(th, os) ==
    /\ Busy(th) /\ lg.inst[th][Current(th)].pc = "init"
    /\ LET i == Current(th)
       IN  IF init_nested(lg.active[th])
           THEN /\ os = FALSE
                /\ lg' = [lg EXCEPT !.inst[th][i].pc = "ctor"]
           ELSE IF lg.once
           THEN /\ os = lg.common_os
                /\ lg' = [lg EXCEPT !.inst[th][i].pc = "lock"]
           ELSE lg' = [lg EXCEPT !.inst[th][i].pc = "lock",
                                 !.once = TRUE, !.common_os = os]
    /\ UNCHANGED notLog

try_lock_always(m, th) == TRUE

\* std::unique_lock{mtx} returns when the mutex is free.  Locking a mutex the
\* thread holds itself never returns.
try_lock(m, th) == m = Null

\* log::init, line 303: return std::unique_lock{mtx}
log_lock(th) ==
    /\ Busy(th) /\ lg.inst[th][Current(th)].pc = "lock"
    /\ try_lock(lg.mtx, th)
    /\ LET i == Current(th)
       IN  lg' = [lg EXCEPT !.mtx = th, !.inst[th][i].lck = TRUE,
                            !.inst[th][i].pc = "ctor"]
    /\ UNCHANGED notLog

\* *os << v
put(s, e) == Append(s, e)

\* log::log, the body: if (active) return; active = true; os = common_os;
\* if (os) { ... *os << ... << ' '; }
log_ctor(th) ==
    /\ Busy(th) /\ lg.inst[th][Current(th)].pc = "ctor"
    /\ LET i == Current(th)
           id == lg.inst[th][i].id
       IN  IF lg.active[th]
           THEN lg' = [lg EXCEPT !.inst[th][i].pc = "open"]
           ELSE lg' = [lg EXCEPT !.active[th] = TRUE,
                                 !.inst[th][i].os = lg.common_os,
                                 !.inst[th][i].pc = "open",
                                 !.sink = IF lg.common_os
                                          THEN put(@, <<th, id, Header>>)
                                          ELSE @]
    /\ UNCHANGED notLog

\* operator<<(log&&, T&&): if (dbg.os) *dbg.os << v
log_append(th, i) ==
    /\ ~Busy(th)
    /\ i \in 1..Len(lg.inst[th])
    /\ lg.inst[th][i].vals < MaxVals
    /\ LET r == lg.inst[th][i]
       IN  lg' = [lg EXCEPT !.inst[th][i].vals = @ + 1,
                            !.sink = IF r.os
                                     THEN put(@, <<th, r.id, Val(r.vals + 1)>>)
                                     ELSE @]
    /\ UNCHANGED notLog

\* The sequence s without its last entry.
Front(s) == SubSeq(s, 1, Len(s) - 1)

dtor_newline_never(s, e) == s

\* log::~log, line 290: std::move(*this) << std::endl
dtor_newline(s, e) == put(s, e)

\* log::~log, the body: if (lck) { std::move(*this) << std::endl;
\* active = false; }.  An instance without the lock is gone with it.
\* Instances are temporaries or automatic objects: the instance a thread
\* created last is destroyed first.
log_dtor(th) ==
    /\ ~Busy(th)
    /\ lg.inst[th] # <<>>
    /\ LET i == Len(lg.inst[th])
           r == lg.inst[th][i]
       IN  IF r.lck
           THEN lg' = [lg EXCEPT !.active[th] = FALSE,
                                 !.inst[th][i].pc = "unlock",
                                 !.sink = IF r.os
                                          THEN dtor_newline(@, <<th, r.id, Newline>>)
                                          ELSE @]
           ELSE lg' = [lg EXCEPT !.inst[th] = Front(@)]
    /\ UNCHANGED notLog

\* log::~log, after the body: the member lck is destroyed and unlocks mtx.
log_unlock(th) ==
    /\ Busy(th) /\ lg.inst[th][Current(th)].pc = "unlock"
    /\ lg' = [lg EXCEPT !.mtx = Null, !.inst[th] = Front(@)]
    /\ UNCHANGED notLog

----------------------------------------------------------------------------
\* generator and lazy objects that are copied, moved and destroyed
\* (src/src/coro/generator.hpp, src/src/coro/lazy.hpp)

\* kind: "generator" or "lazy", of every object made so far; handle: the frame
\* its member handle refers to; live: its lifetime has not ended; destroys:
\* the number of handle.destroy() calls made for every frame; ub: a frame was
\* destroyed twice.
NoWrapper == [kind |-> <<>>, handle |-> <<>>, live |-> <<>>, destroys |-> <<>>,
              ub |-> FALSE]

NoWrappers == wrp = NoWrapper

Wrappers == 1..MaxWrappers

\* Object w exists and its lifetime has not ended.
Live(w) == w \in DOMAIN wrp.live /\ wrp.live[w]

\* generator(const generator&) = default, the implicit lazy(const lazy&) and
\* their operator=: the member handle, a std::coroutine_handle, is copied.
copy_handle(h) == h

\* A new object of the kind k with the handle h.
wrapper_new(r, k, h) ==
    [r EXCEPT !.kind = Append(@, k), !.handle = Append(@, h),
              !.live = Append(@, TRUE)]

\* Calling a coroutine function that returns a generator or a lazy makes a
\* frame; log_promise::get_return_object() is RetObj r{promise}; ...; return r.
\* A build that does not elide the named local r constructs the returned
\* object from r (generator(generator&&), lazy(const lazy&)) and destroys r,
\* whose destructor destroys the frame.
wrapper_get_return_object(k, elide) ==
    /\ ~wrp.ub
    /\ Len(wrp.kind) < MaxWrappers /\ Len(wrp.destroys) < MaxFrames
    /\ wrp' = [wrapper_new(wrp, k, Len(wrp.destroys) + 1)
                  EXCEPT !.destroys = Append(@, IF elide THEN 0 ELSE 1)]
    /\ UNCHANGED notWrappers

\* generator(const generator&) = default; lazy declares a destructor only, so
\* its copy constructor is implicit and it has no move constructor: a lazy
\* made from an rvalue is made by this copy constructor too.
wrapper_copy_construct(u) ==
    /\ ~wrp.ub
    /\ Len(wrp.kind) < MaxWrappers
    /\ Live(u)
    /\ wrp' = wrapper_new(wrp, wrp.kind[u], copy_handle(wrp.handle[u]))
    /\ UNCHANGED notWrappers

\* generator(generator&&) noexcept = default: the handle of u is moved as
\* log_handle, i.e. std::coroutine_handle, moves it.
generator_move_construct(u) ==
    /\ ~wrp.ub
    /\ Len(wrp.kind) < MaxWrappers
    /\ Live(u) /\ wrp.kind[u] = "generator"
    /\ wrp' = wrapper_new([wrp EXCEPT !.handle[u] = move_handle(@)],
                          "generator", wrp.handle[u])
    /\ UNCHANGED notWrappers

\* generator& operator=(const generator&) = default and the implicit
\* lazy& operator=(const lazy&): w = u.
wrapper_copy_assign(w, u) ==
    /\ ~wrp.ub
    /\ Live(w) /\ Live(u) /\ w # u /\ wrp.kind[w] = wrp.kind[u]
    /\ wrp' = [wrp EXCEPT !.handle[w] = copy_handle(wrp.handle[u])]
    /\ UNCHANGED notWrappers

\* generator& operator=(generator&&) noexcept = default: w = std::move(u).
generator_move_assign(w, u) ==
    /\ ~wrp.ub
    /\ Live(w) /\ Live(u) /\ w # u
    /\ wrp.kind[w] = "generator" /\ wrp.kind[u] = "generator"
    /\ wrp' = [wrp EXCEPT !.handle[w] = wrp.handle[u],
                          !.handle[u] = move_handle(wrp.handle[u])]
    /\ UNCHANGED notWrappers

\* ~generator and ~lazy: handle.destroy().  Destroying a destroyed frame is
\* undefined: the frame is freed twice.
wrapper_dtor(w) ==
    /\ ~wrp.ub
    /\ Live(w)
    /\ wrp' = [wrp EXCEPT !.live[w] = FALSE,
                          !.destroys[wrp.handle[w]] = @ + 1,
                          !.ub = wrp.destroys[wrp.handle[w]] > 0]
    /\ UNCHANGED notWrappers

----------------------------------------------------------------------------
Init ==
    /\ storage = <<>>
    /\ sch_it = [t \in Tasks |-> Null]
    /\ current = [t \in Tasks |-> NoValue]
    /\ pt = [t \in Tasks |-> "none"]
    /\ aw = [t \in Tasks |-> NoAwait]
    /\ running = Null
    /\ was = "none"
    /\ adv = Null
    /\ ret = NoValue
    /\ crashed = FALSE
    /\ cnt = [t \in Tasks |-> NoOps]
    /\ budget = MaxOps
    /\ inserts = [t \in Tasks |-> 0]
    /\ erases = [t \in Tasks |-> 0]
    /\ tracing = FALSE
    /\ visits = <<>>
    /\ calls = [t \in Tasks |-> 0]
    /\ pend = [t \in Tasks |-> {}]
    /\ inChain = [t \in Tasks |-> FALSE]
    /\ last = NoTransfer
    /\ depth = 0
    /\ NoObjects /\ NoGenerators /\ NoLazies /\ NoSyncs /\ NoLogs
    /\ NoWrappers

\* Calling a coroutine function: promise_type(Sched&, Args&&...) registers
\* the new coroutine, get_return_object() makes the task, and
\* initial_suspend() (std::suspend_always) returns to the caller.  Tasks are
\* numbered in the order of their construction.
construct(t) ==
    /\ ~crashed
    /\ pt[t] = "none"
    /\ \A u \in Tasks : u < t => pt[u] # "none"
    /\ storage' = insert(storage, t)
    /\ sch_it' = [sch_it EXCEPT ![t] = t]
    /\ inserts' = [inserts EXCEPT ![t] = @ + 1]
    /\ pt' = [pt EXCEPT ![t] = "initial"]
    /\ Forget
    /\ last' = [kind |-> "construct", from |-> running, to |-> t, reg |-> storage]
    /\ UNCHANGED <<current, aw, running, was, crashed, cnt, budget, erases,
                   tracing, pend, inChain, depth>>
    /\ UNCHANGED <<calls, side>>

\* task::operator(): if (!handle.done()) handle.resume();
\* return handle.promise().current;
call(t) ==
    /\ ~crashed
    /\ running = Null
    /\ Alive(t)
    /\ adv' = t
    /\ IF done(t)
       THEN /\ ret' = call_result(current, t, t)
            /\ visits' = <<>>
            /\ last' = [kind |-> "call", from |-> Null, to |-> Null, reg |-> storage]
            /\ UNCHANGED <<pt, aw, running, was, crashed, calls, pend, inChain,
                           depth>>
       ELSE /\ ret' = NoValue
            /\ calls' = IF tracing THEN [calls EXCEPT ![t] = @ + 1] ELSE calls
            /\ last' = [kind |-> "call", from |-> Null, to |-> t, reg |-> storage]
            /\ inChain' = Broken
            /\ Transfer(t, pt, current, cnt, storage, pend, aw, <<>>,
                        depth + 1)
    /\ UNCHANGED <<storage, sch_it, current, cnt, budget, inserts, erases, tracing>>
    /\ UNCHANGED side

yield_await_suspend_other(p) == IF p[2] THEN p[1] ELSE Null

\* yield::await_suspend, line 63: return
\* promise.sched.resume(promise.sch_it).first, whatever .second is
yield_await_suspend(p) == p[1]

\* co_await task::yield{}: yield::await_suspend returns
\* promise.sched.resume(promise.sch_it).first
yield(r) ==
    /\ ~crashed
    /\ running = r
    /\ budget > 0
    /\ LET next == yield_await_suspend(resume(storage, sch_it[r]))
           ptS == [pt EXCEPT ![r] = "yield"]
           c == [cnt EXCEPT ![r].y = @ + 1]
           p == [pend EXCEPT ![r] = Range(storage) \ {r}]
       IN  /\ cnt' = c
           /\ last' = [kind |-> "yield", from |-> r, to |-> next, reg |-> storage,
                       cur |-> current]
           /\ inChain' = [inChain EXCEPT ![r] = TRUE]
           /\ storage' = resume_effect(storage, sch_it[r])
           /\ ret' = Returned(next, current, r)
           /\ Transfer(next, ptS, current, c, resume_effect(storage, sch_it[r]),
                       p, [aw EXCEPT ![r] = NoAwait], visits,
                       symmetric_transfer(depth))
    /\ budget' = budget - 1
    /\ UNCHANGED <<sch_it, current, adv, inserts, erases, tracing>>
    /\ UNCHANGED <<calls, side>>

yield_value_suspend_peer(s, it) == resume(s, it)[1]

\* promise_type::yield_value, line 130: return std::suspend_always{}, which
\* suspends and returns to the caller of resume(), whatever the registry s
\* and the token it of the coroutine are
yield_value_suspend(s, it) == Null

\* co_yield expr: promise_type::yield_value stores the value and returns
\* std::suspend_always.  Declared only if R is not void.
yield_value(r) ==
    /\ ~crashed
    /\ running = r
    /\ cnt[r].end = ""
    /\ budget > 0
    /\ LET c == [cnt EXCEPT ![r].v = @ + 1]
           cur == [current EXCEPT ![r] = Value(r, Productions(c[r]))]
           ptS == [pt EXCEPT ![r] = "yield_value"]
           h == yield_value_suspend(storage, sch_it[r])
       IN  /\ cnt' = c
           /\ current' = cur
           /\ last' = [kind |-> "yield_value", from |-> r, to |-> h, reg |-> storage]
           /\ inChain' = Broken
           /\ ret' = Returned(h, cur, r)
           /\ Transfer(h, ptS, cur, c, storage, [pend EXCEPT ![r] = {}],
                       [aw EXCEPT ![r] = NoAwait], visits, depth)
    /\ budget' = budget - 1
    /\ UNCHANGED <<storage, sch_it, adv, inserts, erases, tracing>>
    /\ UNCHANGED <<calls, side>>

await_suspend_impl_noop(t) == Null

\* task::await_suspend_impl: return handle
await_suspend_impl(t) == t

\* co_await t: log_awaiter::await_ready() is task::await_ready_impl() (false),
\* await_suspend() is task::await_suspend_impl(), which returns t's handle.
co_await(r, t) ==
    /\ ~crashed
    /\ running = r
    /\ t # r /\ Alive(t)
    /\ budget > 0
    /\ LET ptS == [pt EXCEPT ![r] = "await"]
           c == [cnt EXCEPT ![r].a = @ + 1]
           a == [aw EXCEPT ![r] = [on |-> t, before |-> Productions(cnt[t]),
                                   after |-> 0, void |-> FALSE,
                                   result |-> NoValue]]
           h == await_suspend_impl(t)
       IN  /\ cnt' = c
           /\ last' = [kind |-> "await", from |-> r, to |-> t, reg |-> storage]
           /\ inChain' = Broken
           /\ ret' = Returned(h, current, r)
           /\ Transfer(h, ptS, current, c, storage, [pend EXCEPT ![r] = {}], a,
                       visits, symmetric_transfer(depth))
    /\ budget' = budget - 1
    /\ UNCHANGED <<storage, sch_it, current, adv, inserts, erases, tracing>>
    /\ UNCHANGED <<calls, side>>

return_value_lost(cur, r, c) == cur

\* promise_type::return_value_impl: current = std::forward<T>(expr)
return_value_impl(cur, r, c) == [cur EXCEPT ![r] = Value(r, Productions(c[r]))]

final_sch_it_kept(it) == it

\* task_final_suspend::await_suspend, line 46: promise.sch_it = {}
final_sch_it(it) == Null

final_target_noop(next, other) == Null

final_target_next(next, other) == next

\* task_final_suspend::await_suspend, lines 48-51: if (other) return next;
\* return std::noop_coroutine()
final_target(next, other) == IF other THEN next ELSE Null

\* final_suspend() of coroutine r, whose body ended with the bodies as c and
\* the values as cur: task_final_suspend::await_suspend.
final_suspend(r, c, cur) ==
    LET ptS == [pt EXCEPT ![r] = "final"]
        p == [pend EXCEPT ![r] = {}]
        a == [aw EXCEPT ![r] = NoAwait]
    IN  /\ cnt' = c
        /\ current' = cur
        /\ inChain' = [inChain EXCEPT ![r] = FALSE]
        /\ IF sch_it[r] # Null
           THEN LET res == resume(storage, sch_it[r])
                    sto == erase(resume_effect(storage, sch_it[r]), sch_it[r])
                    h == final_target(res[1], res[2])
                IN  /\ storage' = sto
                    /\ erases' = [erases EXCEPT ![r] = @ + 1]
                    /\ sch_it' = [sch_it EXCEPT ![r] = final_sch_it(@)]
                    /\ last' = [kind |-> "final", from |-> r, to |-> h,
                                reg |-> storage]
                    /\ ret' = Returned(h, cur, r)
                    /\ Transfer(h, ptS, cur, c, sto, p, a, visits,
                                symmetric_transfer(depth))
           ELSE /\ UNCHANGED <<storage, erases, sch_it>>
                /\ last' = [kind |-> "final", from |-> r, to |-> Null,
                            reg |-> storage]
                /\ ret' = Returned(Null, cur, r)
                /\ Transfer(Null, ptS, cur, c, storage, p, a, visits,
                            symmetric_transfer(depth))

\* co_return (co_return expr calls return_value(), which calls
\* return_value_impl(); return_void() stores nothing), then final_suspend().
co_return(r, void) ==
    /\ ~crashed
    /\ running = r
    /\ void => cnt[r].v = 0
    /\ LET c == [cnt EXCEPT ![r].end = IF void THEN "e" ELSE "r"]
           cur == IF void THEN current ELSE return_value_impl(current, r, c)
       IN  final_suspend(r, c, cur)
    /\ UNCHANGED <<adv, budget, inserts, tracing>>
    /\ UNCHANGED <<calls, side>>

unhandled_exception_reset(cur, r) == [cur EXCEPT ![r] = NoValue]

\* log_promise::unhandled_exception: rethrows the exception, catches it and
\* logs it; nothing is stored in the promise.
unhandled_exception_impl(cur, r) == cur

\* An exception leaves the body of r: the coroutine calls
\* unhandled_exception(), which returns, then final_suspend().
unhandled_exception(r) ==
    /\ ~crashed
    /\ running = r
    /\ final_suspend(r, [cnt EXCEPT ![r].end = "x"],
                     unhandled_exception_impl(current, r))
    /\ UNCHANGED <<adv, budget, inserts, tracing>>
    /\ UNCHANGED <<calls, side>>

\* task::~task: handle.destroy() destroys the suspended frame and with it the
\* promise; ~promise_type: if (sch_it != iterator{}) sched.erase(sch_it).
\* The caller keeps to the rules of the language: it destroys no task whose
\* operator() call is in progress, none that a suspended co_await refers to,
\* and not the frame it is running in.
destroy(t) ==
    /\ ~crashed
    /\ Alive(t) /\ pt[t] # "running"
    /\ running # Null => t # adv
    /\ \A u \in Tasks : ~(pt[u] = "await" /\ aw[u].on = t)
    /\ pt' = [pt EXCEPT ![t] = "destroyed"]
    /\ IF sch_it[t] # Null
       THEN /\ storage' = erase(storage, sch_it[t])
            /\ erases' = [erases EXCEPT ![t] = @ + 1]
            /\ crashed' = ~ValidIt(storage, sch_it[t])
            /\ pend' = Owed([pend EXCEPT ![t] = {}],
                            [pt EXCEPT ![t] = "destroyed"], Null,
                            erase(storage, sch_it[t]))
       ELSE /\ UNCHANGED <<storage, erases, crashed>>
            /\ pend' = [pend EXCEPT ![t] = {}]
    /\ sch_it' = [sch_it EXCEPT ![t] = Null]
    /\ current' = [current EXCEPT ![t] = NoValue]
    /\ cnt' = [cnt EXCEPT ![t] = NoOps]
    /\ aw' = [aw EXCEPT ![t] = NoAwait]
    /\ inChain' = [inChain EXCEPT ![t] = FALSE]
    /\ calls' = [calls EXCEPT ![t] = 0]
    /\ Forget
    /\ last' = [kind |-> "destroy", from |-> t, to |-> Null, reg |-> storage,
                at |-> pt[t]]
    /\ UNCHANGED <<running, was, budget, inserts, tracing, depth>>
    /\ UNCHANGED side

Next ==
    \/ \E t \in Tasks : construct(t)
    \/ \E t \in Tasks : call(t)
    \/ \E r \in Tasks : yield(r)
    \/ \E r \in Tasks : yield_value(r)
    \/ \E r, t \in Tasks : co_await(r, t)
    \/ \E r \in Tasks, void \in BOOLEAN : co_return(r, void)
    \/ \E t \in Tasks : destroy(t)

Spec == Init /\ [][Next]_vars

----------------------------------------------------------------------------
\* Round-robin runs: the external caller constructs tasks of type
\* task<void, sched_rr> whose bodies suspend at explicit yields only, and the
\* order of resumption is recorded.
InitRR ==
    /\ storage = <<>>
    /\ sch_it = [t \in Tasks |-> Null]
    /\ current = [t \in Tasks |-> NoValue]
    /\ pt = [t \in Tasks |-> "none"]
    /\ aw = [t \in Tasks |-> NoAwait]
    /\ running = Null
    /\ was = "none"
    /\ adv = Null
    /\ ret = NoValue
    /\ crashed = FALSE
    /\ cnt = [t \in Tasks |-> NoOps]
    /\ budget = MaxOps
    /\ inserts = [t \in Tasks |-> 0]
    /\ erases = [t \in Tasks |-> 0]
    /\ tracing = TRUE
    /\ visits = <<>>
    /\ calls = [t \in Tasks |-> 0]
    /\ pend = [t \in Tasks |-> {}]
    /\ inChain = [t \in Tasks |-> FALSE]
    /\ last = NoTransfer
    /\ depth = 0
    /\ NoObjects /\ NoGenerators /\ NoLazies /\ NoSyncs /\ NoLogs
    /\ NoWrappers

NextRR ==
    \/ \E t \in Tasks : running = Null /\ construct(t)
    \/ \E t \in Tasks : call(t)
    \/ \E r \in Tasks : yield(r)
    \/ \E r \in Tasks : co_return(r, TRUE)

SpecRR == InitRR /\ [][NextRR]_vars

\* A running body goes on to its next suspension point or to its end: a
\* resumed coroutine executes on the thread that resumed it until it suspends.
\* Bodies are finite, they execute at most MaxOps explicit yields.
SpecRRFair ==
    SpecRR /\ WF_vars(\E r \in Tasks : yield(r) \/ co_return(r, TRUE))

----------------------------------------------------------------------------
\* Runs with bodies that throw: the external caller constructs and destroys
\* the tasks, and a body may end with an exception at any point.
NextEx ==
    \/ \E t \in Tasks : running = Null /\ construct(t)
    \/ \E t \in Tasks : call(t)
    \/ \E r \in Tasks : yield(r)
    \/ \E r \in Tasks : yield_value(r)
    \/ \E r \in Tasks, void \in BOOLEAN : co_return(r, void)
    \/ \E r \in Tasks : unhandled_exception(r)
    \/ \E t \in Tasks : running = Null /\ destroy(t)

SpecEx == Init /\ [][NextEx]_vars

----------------------------------------------------------------------------
\* Runs that construct, move and destroy task objects; no coroutine is
\* resumed in them.
NextMove ==
    \/ \E elide \in BOOLEAN : get_return_object(elide)
    \/ \E u \in Objects : move_construct(u)
    \/ \E w, u \in Objects : move_assign(w, u)
    \/ \E w \in Objects : end_of_life(w)

SpecMove == Init /\ [][NextMove]_vars

----------------------------------------------------------------------------
\* Runs of generators: the caller constructs them, asks for values and
\* destroys them.
GenSteps == {"done", "co_yield", "co_return", "throw"}

NextGen ==
    \/ generator_ctor
    \/ \E g \in Gens, step \in GenSteps : generator_call(g, step)
    \/ \E g \in Gens, step \in GenSteps : generator_begin(g, step)
    \/ \E g \in Gens, step \in GenSteps : iterator_increment(g, step)
    \/ \E g \in Gens : generator_dtor(g)

SpecGen == Init /\ [][NextGen]_vars

----------------------------------------------------------------------------
\* Runs of lazy coroutines: the caller constructs them, runs them, reads
\* their results and destroys them.
LazySteps == {"done", "co_return", "throw"}
LazyTypes == {"void", "scalar", "class"}

NextLazy ==
    \/ \E R \in LazyTypes : lazy_ctor(R)
    \/ \E l \in 1..MaxLazies, step \in LazySteps : lazy_run(l, step)
    \/ \E l \in 1..MaxLazies, step \in LazySteps, rvalue \in BOOLEAN :
           \E left \in {Unset, MovedFrom, Value(l, 1)} :
               lazy_result(l, step, rvalue, left)
    \/ \E l \in 1..MaxLazies : lazy_dtor(l)

SpecLazy == Init /\ [][NextLazy]_vars

----------------------------------------------------------------------------
\* Runs of sync coroutines: the caller calls the coroutine functions and
\* reads the results.
NextSync ==
    \/ \E R \in LazyTypes, elide \in BOOLEAN, step \in {"co_return", "throw"},
          ub \in {"lost", "crash"} : sync_ctor(R, elide, step, ub)
    \/ \E n \in 1..MaxSyncs, rvalue \in BOOLEAN :
           \E left \in {Unset, MovedFrom, Value(n, 1)} :
               sync_result(n, rvalue, left)

SpecSync == Init /\ [][NextSync]_vars

----------------------------------------------------------------------------
\* Runs of threads that write log messages.
NextLog ==
    \/ \E th \in Threads : log_new(th)
    \/ \E th \in Threads, os \in BOOLEAN : log_init(th, os)
    \/ \E th \in Threads : log_lock(th)
    \/ \E th \in Threads : log_ctor(th)
    \/ \E th \in Threads, i \in 1..MaxLogs : log_append(th, i)
    \/ \E th \in Threads : log_dtor(th)
    \/ \E th \in Threads : log_unlock(th)

SpecLog == Init /\ [][NextLog]_vars

----------------------------------------------------------------------------
\* Runs in which the operator() calls that resume each task are counted: the
\* external caller constructs the tasks and the bodies suspend at any point.
NextSeq ==
    \/ \E t \in Tasks : running = Null /\ construct(t)
    \/ \E t \in Tasks : call(t)
    \/ \E r \in Tasks : yield(r)
    \/ \E r \in Tasks : yield_value(r)
    \/ \E r, t \in Tasks : co_await(r, t)
    \/ \E r \in Tasks, void \in BOOLEAN : co_return(r, void)

SpecSeq == InitRR /\ [][NextSeq]_vars

----------------------------------------------------------------------------
\* Runs that construct, copy, move and destroy generator and lazy objects; no
\* coroutine is resumed in them.
WrapperKinds == {"generator", "lazy"}

NextWrap ==
    \/ \E k \in WrapperKinds, elide \in BOOLEAN : wrapper_get_return_object(k, elide)
    \/ \E u \in Wrappers : wrapper_copy_construct(u)
    \/ \E u \in Wrappers : generator_move_construct(u)
    \/ \E w, u \in Wrappers : wrapper_copy_assign(w, u)
    \/ \E w, u \in Wrappers : generator_move_assign(w, u)
    \/ \E w \in Wrappers : wrapper_dtor(w)

SpecWrap == Init /\ [][NextWrap]_vars

----------------------------------------------------------------------------
\* Properties

\* The entry after position i of a list of n entries, in round-robin order.
After(i, n) == (i % n) + 1

\* Tasks that have been constructed.
Constructed == {t \in Tasks : pt[t] # "none"}

\* C1: the registration of every task is inserted once, at construction, and
\* erased once, at final suspend or at destruction: a task that is constructed
\* has one insert, a task that is terminated or destroyed has exactly one
\* erase, every other task has none, and the token is non-null exactly between
\* the insert and the erase, where it designates an entry of the registry.
C1_ErasedExactlyOnce ==
    \A t \in Tasks :
        /\ inserts[t] = (IF pt[t] = "none" THEN 0 ELSE 1)
        /\ erases[t] = (IF pt[t] \in {"final", "destroyed"} THEN 1 ELSE 0)
        /\ (sch_it[t] # Null) <=> (inserts[t] = 1 /\ erases[t] = 0)
        /\ sch_it[t] # Null => ValidIt(storage, sch_it[t])

\* A terminated task was destroyed (the registry did not change) after its
\* single erase, while another terminated task still exists.
C1_Witness ==
    /\ last.kind = "destroy" /\ last.reg = storage
    /\ erases[last.from] = 1
    /\ \E u \in Tasks : pt[u] = "final" /\ erases[u] = 1

\* C2: the registry holds exactly the tasks that are constructed, not
\* destroyed and not terminated, each once.
C2_RegistryIsLiveTasks ==
    /\ Range(storage) = {t \in Tasks : pt[t] \in Resumable \cup {"running"}}
    /\ Cardinality(Range(storage)) = Len(storage)

\* A terminated task, a destroyed task and a registered task side by side.
C2_Witness ==
    /\ \E t \in Tasks : pt[t] = "final"
    /\ \E t \in Tasks : pt[t] = "destroyed"
    /\ Len(storage) = 1

\* C3: resume(token) returns the entry that follows the token's entry in
\* insertion order, the first entry after the last; has_other is true exactly
\* when the registry has more than one entry, and with one entry the handle
\* returned is the token's own.
C3_ResumeIsSuccessor ==
    \A it \in Range(storage) :
        LET i == IndexOf(storage, it)
            n == Len(storage)
            res == resume(storage, it)
        IN  /\ res[1] = storage[After(i, n)]
            /\ res[2] = (n > 1)
            /\ n = 1 => res[1] = it /\ ~res[2]

\* An explicit yield of the last entry of a registry of several was handed on
\* to the first entry.
C3_Witness ==
    /\ last.kind = "yield"
    /\ Len(last.reg) > 1
    /\ last.reg[Len(last.reg)] = last.from
    /\ last.to = last.reg[1]
    /\ running = last.to

\* The order T1..TN, T1..TN of N tasks.
TwoRounds(n) == [i \in 1..(2 * n) |-> After(i - 1, n)]

\* The external caller constructed N tasks, made one operator() call, for T1,
\* which has returned, and every body was a segment, one explicit yield and a
\* further segment.
OneYieldEach ==
    /\ running = Null /\ adv = 1 /\ visits # <<>>
    /\ \A t \in Constructed : done(t) /\ cnt[t] = [NoOps EXCEPT !.y = 1, !.end = "e"]

\* C4: with N tasks constructed in the order T1..TN, each body a segment, one
\* explicit yield and a further segment, one operator() call for T1 resumes
\* the tasks in the order T1,...,TN,T1,...,TN: all first segments in
\* construction order, then all second segments in construction order.
C4_TwoRoundsInOrder ==
    OneYieldEach => visits = TwoRounds(Cardinality(Constructed))

\* Such a run of three tasks has ended.
C4_Witness ==
    /\ OneYieldEach
    /\ Cardinality(Constructed) = 3
    /\ visits = <<1, 2, 3, 1, 2, 3>>

\* C6: when a body finishes while another task is registered, the coroutine
\* resumed next is the successor of the finishing task in the registry as it
\* was before the erase (the entry after it, the first one after the last),
\* and when that successor runs the finished task is out of the registry and
\* its token is null.
C6_FinalHandsOnToSuccessor ==
    (last.kind = "final" /\ Len(last.reg) > 1) =>
        LET i == IndexOf(last.reg, last.from)
        IN  /\ last.to = last.reg[After(i, Len(last.reg))]
            /\ last.to # last.from
            /\ running = last.to /\ pt[last.to] = "running"
            /\ last.from \notin Range(storage)
            /\ sch_it[last.from] = Null
            /\ storage = SelectSeq(last.reg, LAMBDA h : h # last.from)

\* The last entry of a registry of three finished and the first entry runs.
C6_Witness ==
    /\ last.kind = "final"
    /\ Len(last.reg) = 3
    /\ last.reg[3] = last.from
    /\ running = last.reg[1]

\* C7: when the only registered task reaches its final suspend, no coroutine
\* is resumed: control is back with the external caller, whose operator()
\* call returns, and the registry is empty.
C7_LoneFinalReturnsToCaller ==
    (last.kind = "final" /\ Len(last.reg) = 1) =>
        /\ last.to = Null
        /\ running = Null
        /\ ~crashed
        /\ storage = <<>>
        /\ \A t \in Tasks : pt[t] # "running"

\* The only registered task finished while a terminated task, the one the
\* caller advanced, still exists.
C7_Witness ==
    /\ last.kind = "final" /\ Len(last.reg) = 1
    /\ running = Null
    /\ adv # last.from /\ done(adv)

C9_AwaitGoesToAwaited ==
    last.kind = "await" =>
        /\ pt[last.from] = "await"
        /\ aw[last.from].on = last.to
        /\ storage = last.reg
        /\ last.from \in Range(storage)
        /\ crashed <=> done(last.to)
        /\ ~crashed => running = last.to /\ pt[last.to] = "running"
                       /\ last.to \in Range(storage)
        /\ \A t \in Tasks : sch_it[t] # Null <=> t \in Range(last.reg)

\* The first of three registered tasks awaited the third: the second was
\* passed over.
C9_Witness ==
    /\ last.kind = "await"
    /\ storage = <<1, 2, 3>>
    /\ last.from = 1 /\ last.to = 3
    /\ running = 3

\* C5 as stated: a task resumed from an explicit yield finds that every
\* other task that was registered at the yield, and still is, has been resumed
\* since.
C5_NoRunBeforePeers ==
    (running # Null /\ was = "yield") => pend[running] = {}

\* C5: a task suspended at an explicit yield that is resumed by a registry
\* hand-off, when control has moved by registry hand-offs only (explicit
\* yields and final suspends) since the yield, finds that every other task
\* that was registered at the yield, and still is, has been resumed since.
C5_RoundBeforeReturn ==
    (running # Null /\ was = "yield" /\ inChain[running]) => pend[running] = {}

\* A task is resumed from its explicit yield by the hand-off of the last of
\* its two peers.
C5_Witness ==
    /\ running # Null /\ was = "yield" /\ inChain[running]
    /\ last.kind \in {"yield", "final"}
    /\ last.from # running
    /\ Len(last.reg) = 3

\* C10 as stated: an awaiter resumed from co_await of S finds S advanced by
\* exactly one production since the co_await began, and receives the value of
\* that production (nothing from a body that ended in return_void()).
C10_AwaitOneProduction ==
    (running # Null /\ was = "await") =>
        LET a == aw[running]
        IN  /\ a.after = a.before + 1
            /\ a.result = (IF a.void THEN NoValue ELSE Value(a.on, a.after))

\* The body executed no suspension point before its end.
NoSuspension(c) == c.y + c.v + c.a = 0

\* C11 as stated: when a sub-task that was awaited finishes without having
\* executed a suspension point, the coroutine that runs next is its awaiter,
\* resumed from the co_await with the sub-task's return value (nothing from a
\* void body): no other registered task runs in between.
C11_AwaitLikeCall ==
    (last.kind = "final" /\ NoSuspension(cnt[last.from])) =>
        \A u \in Tasks :
            (pt[u] \in {"await", "running"} /\ aw[u].on = last.from) =>
                /\ running = u /\ was = "await"
                /\ aw[u].result = (IF cnt[last.from].end = "e" THEN NoValue
                                   ELSE Value(last.from, 1))

\* C12 as stated: in every run of construct, move and destroy operations on
\* task objects no frame is destroyed more than once, every frame that is not
\* destroyed is the handle of exactly one living task object, and a frame is
\* destroyed once all task objects are gone.
C12_DestroyedExactlyOnce ==
    \A f \in DOMAIN destroys :
        /\ destroys[f] <= 1
        /\ Suspended(f) => Cardinality(Holders(f)) = 1
        /\ (\A w \in DOMAIN obj : obj[w] = "dead") => destroys[f] = 1

\* The list s without its k-th entry.
Without(s, k) == [i \in 1..(Len(s) - 1) |-> IF i < k THEN s[i] ELSE s[i + 1]]

\* C13: destroying a task that has not reached its final suspend (suspended
\* at the initial suspend, at an explicit yield, at a value yield or at a
\* co_await) makes one erase, which removes the entry of that task from the
\* registry; the other entries keep their order and their tokens.
C13_DestroyErasesOwnEntry ==
    (last.kind = "destroy" /\ last.at # "final") =>
        /\ last.from \in Range(last.reg)
        /\ storage = Without(last.reg, IndexOf(last.reg, last.from))
        /\ erases[last.from] = 1
        /\ ~crashed
        /\ \A u \in Range(storage) : sch_it[u] = u

\* The middle one of three registered tasks was destroyed while it was
\* suspended at an explicit yield.
C13_Witness ==
    /\ last.kind = "destroy" /\ last.at = "yield"
    /\ last.reg = <<1, 2, 3>> /\ last.from = 2
    /\ storage = <<1, 3>>

\* C14: destroying a task that has terminated erases nothing: the registry
\* is as it was before, and the only erase made for the task is the one of
\* its final suspend.
C14_DestroyDoneErasesNothing ==
    (last.kind = "destroy" /\ last.at = "final") =>
        /\ storage = last.reg
        /\ last.from \notin Range(last.reg)
        /\ erases[last.from] = 1
        /\ ~crashed

\* A terminated task was destroyed while two other tasks were registered.
C14_Witness ==
    /\ last.kind = "destroy" /\ last.at = "final"
    /\ Len(last.reg) = 2 /\ storage = last.reg

\* The operations that resume a coroutine.
Resuming == {"call", "await", "yield", "final"}

\* C15: constructing a task appends it to the registry as the last entry and
\* runs none of its body: control stays where it was, the new frame is at its
\* initial suspend, has executed nothing and holds no value.  A frame leaves
\* the initial suspend only by being destroyed or by being resumed: by an
\* operator() call for the task, by a co_await of it, or by the hand-off of
\* an explicit yield or of a final suspend.
C15_ConstructDoesNotRun ==
    /\ [](last.kind = "construct" =>
            /\ storage = Append(last.reg, last.to)
            /\ running = last.from
            /\ pt[last.to] = "initial")
    /\ [](\A t \in Tasks :
            pt[t] = "initial" => cnt[t] = NoOps /\ current[t] = NoValue)
    /\ [][\A t \in Tasks :
            (pt[t] = "initial" /\ pt'[t] # "initial") =>
                \/ pt'[t] = "destroyed" /\ last'.kind = "destroy"
                \/ /\ pt'[t] = "running" /\ running' = t
                   /\ last'.kind \in Resuming /\ last'.to = t]_vars

\* A running body constructed the third task, behind two registered ones.
C15_Witness ==
    /\ last.kind = "construct" /\ last.from # Null
    /\ storage = <<1, 2, 3>> /\ last.to = 3
    /\ pt[3] = "initial" /\ running = last.from

\* C16: the registry is a sequence in insertion order.  insert(hnd) on any
\* registry gives the registry with hnd as its new last entry, one longer;
\* erase(token) gives the registry without the entry of the token, one
\* shorter, the other entries in their order.  After an operation that
\* calls insert (a construction) or erase (a final suspend or a destruction
\* of a registered task) the registry is the former one changed in that way,
\* after any other operation it is the former one, and the token of every
\* registered task designates its entry.
C16_InsertionOrdered ==
    /\ \A h \in Tasks \ Range(storage) :
           LET s == insert(storage, h)
           IN  /\ Len(s) = Len(storage) + 1 /\ s[Len(s)] = h
               /\ \A i \in 1..Len(storage) : s[i] = storage[i]
    /\ \A it \in Range(storage) :
           erase(storage, it) = Without(storage, IndexOf(storage, it))
    /\ last.kind = "construct" => storage = Append(last.reg, last.to)
    /\ last.kind \in {"final", "destroy"} =>
           storage = (IF last.from \in Range(last.reg)
                      THEN Without(last.reg, IndexOf(last.reg, last.from))
                      ELSE last.reg)
    /\ last.kind \in {"call", "yield", "yield_value", "await"} =>
           storage = last.reg
    /\ \A u \in Range(storage) : sch_it[u] = u

\* The first of two entries was erased and a task was inserted afterwards,
\* behind the one that was left.
C16_Witness ==
    /\ last.kind = "construct"
    /\ erases[1] = 1 /\ inserts[3] = 1
    /\ last.reg = <<2>> /\ storage = <<2, 3>>

\* C17: resume(token) is a query.  For every registry and every token of
\* it the registry after the call is the registry before it, and after an
\* explicit yield, the operation that calls resume and nothing else of the
\* scheduler, the registry has the entries it had, in their order, and the
\* registered tasks are the ones that hold a token.
C17_ResumeIsQuery ==
    /\ \A it \in Range(storage) : resume_effect(storage, it) = storage
    /\ last.kind = "yield" =>
           /\ storage = last.reg
           /\ \A t \in Tasks : sch_it[t] # Null <=> t \in Range(last.reg)
           /\ \A t \in Range(last.reg) : sch_it[t] = t /\ erases[t] = 0

\* The second of three registered tasks yielded to the third.
C17_Witness ==
    /\ last.kind = "yield" /\ last.from = 2 /\ last.to = 3
    /\ last.reg = <<1, 2, 3>> /\ storage = last.reg
    /\ running = 3

\* C18: when an exception leaves the body of a task, nothing is propagated
\* to the resumer and the process goes on.  The task is at its final suspend
\* and out of the registry, by its only erase, with a null token; its current
\* value is the last one it produced, or none; the coroutine that runs next
\* is its registry successor, and if it was the only entry the pending
\* operator() call returns to the external caller with the current value of
\* the task it was made for.
C18_ExceptionIsSwallowed ==
    (last.kind = "final" /\ cnt[last.from].end = "x") =>
        LET t == last.from
            n == Len(last.reg)
            k == IndexOf(last.reg, t)
        IN  /\ ~crashed
            /\ done(t)
            /\ storage = Without(last.reg, k)
            /\ sch_it[t] = Null /\ erases[t] = 1
            /\ current[t] = (IF cnt[t].v = 0 THEN NoValue
                             ELSE Value(t, cnt[t].v))
            /\ IF n > 1
               THEN running = last.reg[After(k, n)] /\ pt[running] = "running"
               ELSE running = Null /\ ret = current[adv]

\* A body that had produced a value ended with an exception while a peer was
\* registered behind it, and the peer runs.
C18_Witness ==
    /\ last.kind = "final" /\ cnt[last.from].end = "x"
    /\ cnt[last.from].v = 1 /\ current[last.from] = Value(last.from, 1)
    /\ last.reg = <<1, 2>> /\ last.from = 1
    /\ running = 2

\* C19 as stated: a request for a value that is made after the computation
\* has completed, to a generator or to a scheduler-bound task, returns "no
\* value".
C19_NoValuePastCompletion ==
    /\ \A g \in DOMAIN gen : gen[g].past => gen[g].ret = NoValue
    /\ (last.kind = "call" /\ last.to = Null) => ret = NoValue

\* C20: an operator() call for a terminated task resumes nothing.  It
\* returns the current value of the task, and the frames, the values, the
\* bodies, the registry and the tokens are after the call as before it, so a
\* further call returns the same value.
C20_CallOnDoneIsRead ==
    /\ []((last.kind = "call" /\ last.to = Null) =>
            /\ running = Null /\ ~crashed
            /\ pt[adv] = "final" /\ ret = current[adv])
    /\ [][\A t \in Tasks :
            (running = Null /\ adv' = t /\ pt[t] = "final") =>
                /\ ret' = current[t]
                /\ running' = Null /\ ~crashed'
                /\ pt' = pt /\ current' = current /\ cnt' = cnt
                /\ storage' = storage /\ sch_it' = sch_it
                /\ inserts' = inserts /\ erases' = erases]_vars

\* A call for a terminated task returned the value the task had returned,
\* while two other tasks are registered.
C20_Witness ==
    /\ last.kind = "call" /\ last.to = Null
    /\ cnt[adv].end = "r" /\ ret = Value(adv, 1)
    /\ Len(storage) = 2

\* The body of t has suspended at co_yield expr only, and the external caller
\* has just made an operator() call for t.
ValuesOnly(t) ==
    /\ running = Null /\ ~crashed
    /\ adv = t /\ calls[t] >= 1
    /\ cnt[t].y = 0 /\ cnt[t].a = 0 /\ cnt[t].end \in {"", "r"}

\* C21 as stated: the n-th operator() call for a task whose body produces
\* values by co_yield and then by co_return returns the n-th value produced,
\* and the task is done exactly after the call that returns the value of
\* co_return.
C21_NthCallNthValue ==
    \A t \in Tasks :
        ValuesOnly(t) =>
            /\ ret = Value(t, calls[t])
            /\ done(t) <=> cnt[t].end = "r"

\* C21: the same, for a task that is resumed by its own operator() calls
\* only: every production of the body answered one of these calls.
C21_ValuesInOrder ==
    \A t \in Tasks :
        (ValuesOnly(t) /\ Productions(cnt[t]) = calls[t]) =>
            /\ ret = Value(t, calls[t]) /\ ret # NoValue
            /\ done(t) <=> cnt[t].end = "r"

\* The third call for a task returned the value of its co_return, after two
\* calls that returned the values of its two co_yield, with a peer registered.
C21_Witness ==
    \E t \in Tasks :
        /\ ValuesOnly(t) /\ calls[t] = 3
        /\ cnt[t].v = 2 /\ cnt[t].end = "r"
        /\ ret = Value(t, 3) /\ done(t)
        /\ Len(storage) >= 1

\* The latest operation resumed a coroutine that was suspended at an explicit
\* yield, and the coroutine has not done anything since.
ResumedFromYield ==
    /\ running # Null /\ ~crashed
    /\ was = "yield"
    /\ last.kind \notin {"construct", "destroy"}

\* C22 as stated: a task suspended at an explicit yield is resumed only by an
\* explicit yield or a final suspend that selects it as round-robin successor
\* (the explicit yield of the only registered task, which selects the task
\* itself, is let pass here).
C22_OnlyPeersHandOff ==
    ResumedFromYield =>
        /\ last.kind \in {"yield", "final"}
        /\ last.to = running

\* C22: a task suspended at an explicit yield is resumed only by the explicit
\* yield or the final suspend of another task that selects it as round-robin
\* successor, by its own explicit yield when it is the only registered task,
\* by an operator() call for it, or by a co_await of it in another task.
C22_ResumedFromYieldBy ==
    ResumedFromYield =>
        /\ last.to = running
        /\ \/ /\ last.kind \in {"yield", "final"}
              /\ last.from \in Range(last.reg) \ {running}
              /\ running = resume(last.reg, last.from)[1]
           \/ /\ last.kind = "yield"
              /\ last.from = running
              /\ last.reg = <<running>>
           \/ /\ last.kind = "call"
              /\ last.from = Null /\ adv = running
           \/ /\ last.kind = "await"
              /\ last.from \in Tasks \ {running}
              /\ pt[last.from] = "await"

\* A task suspended at an explicit yield was resumed by the final suspend of
\* the last of three registered tasks, whose successor it is.
C22_Witness ==
    /\ ResumedFromYield
    /\ last.kind = "final" /\ last.from # running
    /\ Len(last.reg) = 3 /\ last.reg[1] = running /\ last.reg[3] = last.from

\* C23: tasks whose finite bodies suspend at explicit yields only.  An
\* operator() call that resumes a task eventually returns; when it has
\* returned every task that was registered has terminated and the registry
\* is empty; a task that
\* finishes while other tasks are registered hands control to its round-robin
\* successor and leaves the other entries of the registry in their order.
C23_ChainRunsAllToTheEnd ==
    /\ (running # Null) ~> (running = Null)
    /\ []((running = Null /\ adv # Null /\ last.kind # "call") =>
            /\ storage = <<>>
            /\ \A t \in Constructed : done(t))
    /\ []((last.kind = "final" /\ Len(last.reg) > 1) =>
            /\ running = resume(last.reg, last.from)[1]
            /\ running # Null /\ running # last.from
            /\ storage = Without(last.reg, IndexOf(last.reg, last.from)))

\* One operator() call has returned after it ran three tasks with two, one
\* and no explicit yield to their ends.
C23_Witness ==
    /\ running = Null /\ adv # Null /\ storage = <<>>
    /\ \A t \in Tasks : done(t)
    /\ \E a, b, c \in Tasks :
        cnt[a].y = 2 /\ cnt[b].y = 1 /\ cnt[c].y = 0

\* No task but t has been constructed so far.
Sole(t) == \A u \in Tasks \ {t} : pt[u] = "none"

\* C24: an explicit yield of the only registered task resumes that task at
\* once, control does not return to the external caller and the registry is
\* left alone; an operator() call for a task that is the only one and whose
\* body suspends at explicit yields only returns when the body has ended.
C24_SoleTaskResumesItself ==
    /\ (last.kind = "yield" /\ last.reg = <<last.from>>) =>
        /\ last.to = last.from
        /\ running = last.from /\ pt[running] = "running" /\ was = "yield"
        /\ ~crashed
        /\ storage = last.reg
    /\ \A t \in Tasks :
        (/\ running = Null /\ adv = t /\ last.kind # "call"
         /\ Sole(t) /\ cnt[t].v = 0) =>
            /\ done(t) /\ ~crashed
            /\ cnt[t].end # ""
            /\ ret = current[t]
            /\ storage = <<>>

\* One operator() call for the only task has returned the value of its
\* co_return after its body ran through MaxOps explicit yields.
C24_Witness ==
    \E t \in Tasks :
        /\ running = Null /\ adv = t /\ last.kind = "final"
        /\ Sole(t)
        /\ cnt[t] = [y |-> MaxOps, v |-> 0, a |-> 0, end |-> "r"]
        /\ ret = Value(t, 1) /\ done(t)

\* C25 as stated: the operator() calls made for a generator, directly or by
\* begin() and operator++ of an iteration, return the values the body yielded,
\* in yield order and each once, then "no value", and "no value" again when
\* called after the end without resuming the body; the iterator equals end()
\* exactly when a call returned "no value", and points to a yielded value
\* until then.
C25_DeliversYieldedValues ==
    \A g \in DOMAIN gen :
        LET r == gen[g]
        IN  /\ \A i \in 1..Len(r.out) :
                r.out[i] = IF i <= r.n THEN Value(g, i) ELSE NoValue
            /\ r.end = "" => Len(r.out) = r.n
            /\ r.past => r.ret = NoValue /\ r.pt = "final"
            /\ r.it = "valid" =>
                /\ r.pt = "yield_value"
                /\ iterator_deref(g) = Value(g, r.n)
            /\ r.it = "end" => r.pt = "final" /\ r.ret = NoValue

\* The latest call made for the lazy coroutine l was a result() call, and the
\* body of l had ended, then or before, by co_return expr.
ResultRead(l) == lz[l].reads >= 1 /\ lz[l].ret # NoValue /\ lz[l].end = "r"

\* The body of a lazy coroutine is not executed by the construction, it is
\* executed once, to its end, by the first run() or result() call and never
\* by a later one.
RunsOnce ==
    \A l \in DOMAIN lz :
        /\ lz[l].pt = "initial" => (lz[l].runs = 0 /\ lz[l].reads = 0)
        /\ lz[l].reads >= 1 =>
            (lz[l].runs = 1 /\ lz[l].pt = "final" /\ lz[l].end # "")

\* C26 as stated: the body is executed once, by the first run() or result(),
\* and every result() call, the first and every later one, returns the value
\* of co_return.
C26_EveryReadReturnsResult ==
    /\ RunsOnce
    /\ \A l \in DOMAIN lz :
        ResultRead(l) => lz[l].ret = lazy_return_value_impl(l)

\* C26: the body is executed once, by the first run() or result(), and every
\* result() call, the first and every later one, that is not made after a
\* result() && call returns the value of co_return.
C26_RunsOnceThenReads ==
    /\ RunsOnce
    /\ \A l \in DOMAIN lz :
        (ResultRead(l) /\ ~lz[l].moved) =>
            lz[l].ret = lazy_return_value_impl(l)

\* A result() & call ran the body, a run() call followed, and a result() &&
\* call, the third call, returned the value of co_return.
C26_Witness ==
    \E l \in DOMAIN lz :
        /\ ResultRead(l) /\ lz[l].rv /\ ~lz[l].moved
        /\ lz[l].reads = 3 /\ lz[l].runs = 1
        /\ lz[l].ret = Value(l, 1)

\* C27 as stated: when the call of a sync coroutine function has returned, the
\* body has been executed, and result() returns the value of co_return, at
\* the first read and at every later one (reads made after a result() &&
\* call, which moves the value out, are let pass here).
C27_EagerResult ==
    /\ ~crashed
    /\ \A n \in DOMAIN sy :
        /\ sy[n].ran /\ sy[n].end # ""
        /\ (sy[n].end = "r" /\ sy[n].reads = 0) =>
            sy[n].result = sync_return_value_impl(n)
        /\ (sy[n].end = "r" /\ sy[n].reads >= 1 /\ ~sy[n].moved) =>
            sy[n].ret = sync_return_value_impl(n)

\* The instances of thread th that own the mutex, and those that write.
Locked(th) == {i \in 1..Len(lg.inst[th]) : lg.inst[th][i].lck}
Writing(th) == {i \in 1..Len(lg.inst[th]) : lg.inst[th][i].os}

\* The message an entry of the output belongs to.
MsgOf(e) == <<e[1], e[2]>>

\* C28: with several threads logging, at most one log instance owns the mutex
\* at any time, and only that instance can write; every message is in the
\* output as one piece, from its header to its newline, no part of another
\* message in between, and a message that is not finished yet is that of the
\* instance that owns the mutex.
C28_MessagesWritten ==
    /\ \A t1, t2 \in Threads :
        (Locked(t1) # {} /\ Locked(t2) # {}) => t1 = t2
    /\ \A th \in Threads :
        /\ Cardinality(Locked(th)) <= 1
        /\ Writing(th) \subseteq Locked(th)
        /\ Locked(th) # {} <=> lg.mtx = th
    /\ \A i, k \in 1..Len(lg.sink) :
        (i < k /\ MsgOf(lg.sink[i]) = MsgOf(lg.sink[k])) =>
            \A j \in i..k : MsgOf(lg.sink[j]) = MsgOf(lg.sink[i])
    /\ \A k \in 1..Len(lg.sink) :
        (k < Len(lg.sink) /\ MsgOf(lg.sink[k]) # MsgOf(lg.sink[k + 1])) =>
            /\ lg.sink[k][3] = Newline
            /\ lg.sink[k + 1][3] = Header
    /\ (lg.sink # <<>> /\ lg.sink[Len(lg.sink)][3] # Newline) =>
        LET e == lg.sink[Len(lg.sink)]
        IN  /\ lg.mtx = e[1]
            /\ \E i \in Writing(e[1]) : lg.inst[e[1]][i].id = e[2]

\* A thread waits for the mutex while another thread, which owns it, has
\* written the header and a value of its message, after a first message was
\* written whole.
C28_Witness ==
    \E t1, t2 \in Threads :
        /\ t1 # t2
        /\ lg.inst[t2] # <<>> /\ lg.inst[t2][1].pc = "lock"
        /\ lg.inst[t1] # <<>> /\ lg.inst[t1][1].os /\ lg.inst[t1][1].vals = 1
        /\ Len(lg.sink) = 5
        /\ lg.sink[3][3] = Newline
        /\ lg.sink[5] = <<t1, lg.inst[t1][1].id, Val(1)>>

Message(id) ==
    LET m == SelectSeq(lg.sink, LAMBDA e : e[2] = id)
    IN  [k \in 1..Len(m) |-> m[k][3]]

\* The header and the first n appended values.
Values(n) == [k \in 1..(n + 1) |-> IF k = 1 THEN Header ELSE Val(k - 1)]

----------------------------------------------------------------------------
\* The latest value task t produced itself, by co_yield expr or co_return
\* expr; empty before its first one.
LatestOf(t) ==
    LET n == cnt[t].v + (IF cnt[t].end = "r" THEN 1 ELSE 0)
    IN  IF n = 0 THEN NoValue ELSE Value(t, n)

\* C31: the value a call of operator() on task T returns is the latest value
\* T produced itself, and empty if T produced none; it is never the value of
\* another task, whichever task suspended last in the call.
C31_CallReturnsOwnLatest ==
    (running = Null /\ adv # Null) => ret = LatestOf(adv)

\* A call of T returned after T suspended at an explicit yield without
\* producing and another task, which the call ran, yielded a value.
C31_Witness ==
    /\ running = Null /\ adv # Null
    /\ last.kind = "yield_value" /\ last.from # adv
    /\ current[last.from] # NoValue
    /\ pt[adv] = "yield" /\ ret = NoValue

----------------------------------------------------------------------------
\* C32: when a coroutine has suspended at co_yield expr, or at its final
\* suspend after co_return expr, its promise's current already holds the value
\* just produced: the coroutine or caller that runs next reads the new value.
C32_ValueStoredBeforeSuspend ==
    /\ last.kind = "yield_value" =>
          /\ pt[last.from] = "yield_value"
          /\ current[last.from] = Value(last.from, Productions(cnt[last.from]))
          /\ adv = last.from => ret = current[last.from]
    /\ (last.kind = "final" /\ cnt[last.from].end = "r") =>
          /\ pt[last.from] = "final"
          /\ current[last.from] = Value(last.from, Productions(cnt[last.from]))
          /\ (running = Null /\ adv = last.from) => ret = current[last.from]

\* A coroutine yielded a value, then returned another while a peer was
\* registered: the peer runs next and the slot holds the returned value.
C32_Witness ==
    /\ last.kind = "final" /\ cnt[last.from].end = "r"
    /\ last.to # Null /\ running = last.to
    /\ current[last.from] = Value(last.from, 2)

----------------------------------------------------------------------------
\* C33: after co_await task::yield{} of coroutine r the coroutine running is
\* the one whose entry follows r's entry in the registry (the first entry
\* after the last, r itself if it is the only one); the registry has the
\* entries it had, r's included, in their order, and current of every promise
\* is what it was before the yield.
C33_YieldOnlyTransfers ==
    last.kind = "yield" =>
        LET i == IndexOf(last.reg, last.from)
        IN  /\ last.from \in Range(last.reg)
            /\ last.to = last.reg[After(i, Len(last.reg))]
            /\ running = last.to /\ pt[running] = "running" /\ ~crashed
            /\ storage = last.reg
            /\ current = last.cur

\* A coroutine that had yielded a value yielded explicitly to its successor,
\* which had yielded a value too: both values are where they were.
C33_Witness ==
    /\ last.kind = "yield" /\ last.to # last.from
    /\ current[last.from] # NoValue /\ current[last.to] # NoValue
    /\ running = last.to /\ storage = last.reg

----------------------------------------------------------------------------
\* C34 as stated: every resume, by operator(), by the hand-off of an explicit
\* yield or of a final suspend, or by a co_await, is of a coroutine that is
\* alive and suspended at a point from which it can go on (the initial
\* suspend, an explicit yield, a value yield or a co_await); no coroutine at
\* its final suspend and no running coroutine is resumed.
C34_ResumesSuspendedOnly ==
    (last.kind \in Resuming /\ last.to # Null) =>
        /\ ~crashed
        /\ running = last.to /\ pt[running] = "running"
        /\ was \in Resumable

----------------------------------------------------------------------------
\* C35: after co_yield expr of coroutine r no coroutine is running: the
\* pending operator() call, for whichever task it was made, has returned to
\* the external caller with that task's current value.  The registry is what
\* it was, r holds its token, no erase was made for it, and a coroutine
\* suspended in co_await of r's task is still suspended there.
C35_ValueYieldReturnsToCaller ==
    last.kind = "yield_value" =>
        /\ last.to = Null /\ running = Null /\ ~crashed
        /\ adv # Null /\ ret = current[adv]
        /\ pt[last.from] = "yield_value"
        /\ storage = last.reg
        /\ last.from \in Range(storage)
        /\ sch_it[last.from] = last.from /\ erases[last.from] = 0
        /\ \A u \in Tasks : aw[u].on = last.from => pt[u] = "await"

\* A task that another one awaits, registered with a peer behind it, yielded
\* a value in a chain started by a call of the awaiting task.
C35_Witness ==
    /\ last.kind = "yield_value" /\ running = Null
    /\ Len(storage) > 1 /\ storage[Len(storage)] # last.from
    /\ adv # last.from
    /\ pt[adv] = "await" /\ aw[adv].on = last.from

----------------------------------------------------------------------------
\* C36: an operator() call has returned to the external caller only if the
\* task was done when it was called, so that nothing was resumed, or the
\* coroutine that ran last suspended at co_yield expr, or it reached its final
\* suspend as the only entry of the registry; after co_await task::yield{} and
\* after co_await of a task a coroutine is running.
C36_CallReturnsAtThreePoints ==
    /\ (running = Null /\ adv # Null) =>
          \/ last.kind = "call" /\ last.to = Null /\ done(adv)
          \/ last.kind = "yield_value"
          \/ /\ last.kind = "final"
             /\ last.reg = <<last.from>> /\ storage = <<>>
    /\ last.kind \in {"yield", "await"} => running # Null /\ adv # Null

\* A call of a task returned when another task, the last one registered,
\* reached its final suspend.
C36_Witness ==
    /\ running = Null /\ adv # Null
    /\ last.kind = "final" /\ last.from # adv
    /\ done(adv) /\ storage = <<>>

----------------------------------------------------------------------------
\* C37: the hand-offs of a chain do not nest.  While a coroutine runs exactly
\* one call of resume() is pending, the one of the operator() call of the
\* external caller, however many explicit yields, co_awaits and final
\* suspends have transferred control since; when the caller has control none
\* is pending.
C37_HandOffsDoNotNest ==
    depth = (IF running = Null THEN 0 ELSE 1)

\* One operator() call, still in progress, has made MaxOps transfers by
\* explicit yields and co_awaits, of both kinds, and one by a final suspend.
C37_Witness ==
    /\ running # Null /\ depth = 1 /\ budget = 0
    /\ last.kind = "final" /\ last.to = running
    /\ \A t \in Tasks :
          /\ cnt[t].v = 0 /\ pt[t] # "destroyed"
          /\ done(t) => t = last.from
    /\ \E t \in Tasks : cnt[t].y > 0
    /\ \E t \in Tasks : cnt[t].a > 0

----------------------------------------------------------------------------
\* C38 as stated: in every run of construct, copy, move and destroy
\* operations on generator and lazy objects no frame is destroyed more than
\* once, by one object or by two, and every frame has been destroyed once
\* when all the objects are gone.
C38_WrappersDestroyOnce ==
    \A f \in DOMAIN wrp.destroys :
        /\ wrp.destroys[f] <= 1
        /\ (\A w \in DOMAIN wrp.live : ~wrp.live[w]) => wrp.destroys[f] = 1

----------------------------------------------------------------------------
TypeOK ==
    /\ Range(storage) \subseteq Tasks
    /\ running \in Tasks \cup {Null}
    /\ \A t \in Tasks : pt[t] \in {"none", "destroyed", "running", "final"} \cup Resumable

====
